---- MODULE Spec2Model ----
(***************************************************************************)
(* Model of tracking-allocator: the allocation group token registry, the   *)
(* per-thread active-group state machine with its guards (src/src/token.rs) *)
(* and the tracking allocator shim (src/src/allocator.rs).                  *)
(***************************************************************************)
EXTENDS Integers, Sequences, FiniteSets, TLC

\* ------------------------------------------------------------------ bounds
NumThreads == 2
MaxAcquire == 3
MaxPanics == 1
MaxUnsafe == 1
MaxAllocs == 2
AllocGroups == 2

Threads == 1..NumThreads

\* ------------------------------------------------------------ option values
\* Option<T>: None, or Some(x).
None == [some |-> FALSE, v |-> 0]
Some(x) == [some |-> TRUE, v |-> x]

\* ----------------------------------------------------------------- tag data
\* Cow<'static, str>: a borrowed static string or an owned String.
Borrowed(s) == [kind |-> "Borrowed", s |-> s]
Owned(s) == [kind |-> "Owned", s |-> s]

\* Box::leak(os.into_boxed_str()): the leaked str has the String's content.
Leak(s) == s

\* The match of token.rs:88-96: a Cow becomes a &'static str.
IntoStatic(cow) == IF cow.kind = "Borrowed" THEN cow.s ELSE Leak(cow.s)

\* token.rs:84-101: the tag slice mapped pair by pair to static strings.
StaticTags(tags) == [i \in 1..Len(tags) |-> <<IntoStatic(tags[i][1]), IntoStatic(tags[i][2])>>]

\* The tag slices the callers of acquire_with_tags pass in.
TagInputs == { <<>>,
               << <<Borrowed("k"), Owned("v")>> >>,
               << <<Owned("k"), Borrowed("w")>> >> }

VARIABLES registry, pc, rcu, retries, toks, current, stack, lifo, panics, aborted, last,
          tracker, suspended, frames, blocks, events, calls

allocVars == <<tracker, suspended, frames, blocks, events, calls>>
vars == <<registry, pc, rcu, retries, toks, current, stack, lifo, panics, aborted, last,
          tracker, suspended, frames, blocks, events, calls>>

\* --------------------------------------------------------------- registry
\* TOKEN_REGISTRY: an ArcSwapOption. ptr identifies the installed Arc (0 is the
\* empty option of const_empty()), vec is the Vector<Option<GroupTags>> it holds.
EmptyRegistry == [ptr |-> 0, vec |-> <<>>]

\* A closure that pushes the new entry at the front of the vector.
RcuClosureFront(cur, entry) ==
    [cur |-> cur.ptr, id |-> Len(cur.vec), new |-> <<entry>> \o cur.vec, entry |-> entry]

\* A closure that takes the identifier after the push.
RcuClosureIdAfterPush(cur, entry) ==
    [cur |-> cur.ptr, id |-> Len(cur.vec) + 1, new |-> Append(cur.vec, entry), entry |-> entry]

\* The closure both acquire functions hand to rcu: clone the vector (or
\* default), take id = len, push the entry.
RcuClosure(cur, entry) ==
    [cur |-> cur.ptr, id |-> Len(cur.vec), new |-> Append(cur.vec, entry), entry |-> entry]

NoRcu == [cur |-> 0, id |-> 0, new |-> <<>>, entry |-> None]

\* registry.get(id).copied().flatten() of get_active_allocation_group.
Lookup(reg, id) == IF id + 1 \in 1..Len(reg.vec) THEN reg.vec[id + 1] ELSE None

\* ------------------------------------------------------------- guard state
Idle(id) == [tag |-> "Idle", v |-> Some(id)]
Active(previous) == [tag |-> "Active", v |-> previous]

\* An activation that, on an already Active state, clears the thread-local
\* before it panics.
transition_to_active_reset(self, cur) ==
    IF self.tag = "Idle"
    THEN [st |-> Active(cur), cur |-> self.v, panic |-> "none"]
    ELSE [st |-> self, cur |-> None, panic |-> "active->active"]

\* An activation that does not keep the previously active group.
transition_to_active_forget(self, cur) ==
    IF self.tag = "Idle"
    THEN [st |-> Active(None), cur |-> self.v, panic |-> "none"]
    ELSE [st |-> self, cur |-> cur, panic |-> "active->active"]

\* GuardState::transition_to_active on state self with the thread's
\* CURRENT_ALLOCATION_TOKEN cur: the new state, the new thread-local, the panic.
transition_to_active(self, cur) ==
    IF self.tag = "Idle"
    THEN [st |-> Active(cur), cur |-> self.v, panic |-> "none"]
    ELSE [st |-> self, cur |-> cur, panic |-> "active->active"]

\* A deactivation that clears the thread-local instead of restoring it.
transition_to_idle_clear(self, cur) ==
    IF self.tag = "Idle"
    THEN [st |-> self, cur |-> cur, panic |-> "idle->idle", id |-> None]
    ELSE IF cur.some
         THEN [st |-> Idle(cur.v), cur |-> None, panic |-> "none", id |-> cur]
         ELSE [st |-> Active(None), cur |-> None, panic |-> "empty", id |-> None]

\* GuardState::transition_to_idle: mem::replace installs previous.take() before
\* the expect on the old value, so the empty case panics with the thread-local
\* already rewritten and the state left Active(None).
transition_to_idle(self, cur) ==
    IF self.tag = "Idle"
    THEN [st |-> self, cur |-> cur, panic |-> "idle->idle", id |-> None]
    ELSE IF cur.some
         THEN [st |-> Idle(cur.v), cur |-> self.v, panic |-> "none", id |-> cur]
         ELSE [st |-> Active(None), cur |-> self.v, panic |-> "empty", id |-> None]

\* AllocationGuard::exit_inner
exit_inner(self, cur) == transition_to_idle(self, cur)

\* ------------------------------------------------------------------- state
NoOp == [op |-> "none", t |-> 0, i |-> 0, calls |-> 0, fatal |-> <<>>,
         token |-> None, before |-> None, lifo |-> TRUE]

\* No dealloc call in progress on a thread. A call in progress is the block b
\* it frees, the header word raw it read and the statement k it is at.
NoCall == [b |-> 0, raw |-> 0, k |-> 0]

\* The process before any call: an empty registry, no thread-local set, no
\* tracker registered, nothing allocated.
Init ==
    /\ registry = EmptyRegistry
    /\ pc = [t \in Threads |-> "run"]
    /\ rcu = [t \in Threads |-> NoRcu]
    /\ retries = 0
    /\ toks = <<>>
    /\ tracker = FALSE
    /\ suspended = [t \in Threads |-> FALSE]
    /\ frames = [t \in Threads |-> <<>>]
    /\ blocks = <<>>
    /\ events = <<>>
    /\ calls = [t \in Threads |-> NoCall]
    /\ current = [t \in Threads |-> None]
    /\ stack = [t \in Threads |-> <<>>]
    /\ lifo = [t \in Threads |-> TRUE]
    /\ panics = 0
    /\ aborted = FALSE
    /\ last = NoOp

\* ------------------------------------------------------------- acquisition
Started == Len(toks) + Cardinality({t \in Threads : pc[t] = "cas"})

\* AllocationGroupToken::acquire up to the first compare-and-swap of rcu.
Acquire(t) ==
    /\ ~aborted /\ pc[t] = "run"
    /\ Started < MaxAcquire
    /\ rcu' = [rcu EXCEPT ![t] = RcuClosure(registry, None)]
    /\ pc' = [pc EXCEPT ![t] = "cas"]
    /\ UNCHANGED <<retries, registry, toks, current, stack, lifo, panics, aborted, last>>
    /\ UNCHANGED allocVars

\* AllocationGroupToken::acquire_with_tags up to the first compare-and-swap,
\* called with one of the tag slices of inputs.
AcquireWithTagsIn(t, inputs) ==
    /\ ~aborted /\ pc[t] = "run"
    /\ Started < MaxAcquire
    /\ \E tags \in inputs :
          rcu' = [rcu EXCEPT ![t] = RcuClosure(registry, Some(StaticTags(tags)))]
    /\ pc' = [pc EXCEPT ![t] = "cas"]
    /\ UNCHANGED <<retries, registry, toks, current, stack, lifo, panics, aborted, last>>
    /\ UNCHANGED allocVars

AcquireWithTags(t) == AcquireWithTagsIn(t, TagInputs)

\* A compare-and-swap that fails whatever the registry holds.
CasNever(reg, r) == FALSE

\* A store that installs the new Arc whatever the registry holds.
CasBlind(reg, r) == TRUE

\* ArcSwap::compare_and_swap inside rcu: the new Arc is installed only while
\* the registry still holds the Arc the closure was run on.
CasSucceeds(reg, r) == reg.ptr = r.cur

\* A token as the program holds it: id is AllocationGroupToken.0 as returned;
\* tags is what the acquiring call asked for; kind and st follow its life as a
\* token, a guard or an unmanaged token; while it is entered, thr is the thread
\* it is entered on, entered the group it made active and before the group
\* that was active just before.
NewToken(r) == [id |-> r.id, tags |-> r.entry, kind |-> "token", st |-> Idle(r.id),
                thr |-> 0, entered |-> None, before |-> None]

\* The compare-and-swap wins: the snapshot is installed and the call returns
\* AllocationGroupToken(id).
RcuCasOk(t) ==
    /\ ~aborted /\ pc[t] = "cas"
    /\ CasSucceeds(registry, rcu[t])
    /\ registry' = [ptr |-> registry.ptr + 1, vec |-> rcu[t].new]
    /\ toks' = Append(toks, NewToken(rcu[t]))
    /\ rcu' = [rcu EXCEPT ![t] = NoRcu]
    /\ pc' = [pc EXCEPT ![t] = "run"]
    /\ UNCHANGED <<retries, current, stack, lifo, panics, aborted, last>>
    /\ UNCHANGED allocVars

\* The compare-and-swap loses: rcu takes the value it found and runs the
\* closure again on it.
RcuCasRetry(t) ==
    /\ ~aborted /\ pc[t] = "cas"
    /\ ~CasSucceeds(registry, rcu[t])
    /\ rcu' = [rcu EXCEPT ![t] = RcuClosure(registry, rcu[t].entry)]
    /\ retries' = retries + 1
    /\ UNCHANGED <<registry, pc, toks, current, stack, lifo, panics, aborted, last>>
    /\ UNCHANGED allocVars

\* ------------------------------------------------------------------ guards
Top(s) == s[Len(s)]
Without(s, i) == SelectSeq(s, LAMBDA x : x # i)
IsTop(t, i) == Len(stack[t]) > 0 /\ Top(stack[t]) = i

\* AllocationGroupToken::enter / AllocationGuard::enter: the token is consumed
\* into a guard whose state went Idle(id) -> Active(previous).
Enter(t) ==
    /\ ~aborted /\ pc[t] = "run" /\ frames[t] = <<>>
    /\ \E i \in 1..Len(toks) :
          /\ toks[i].kind = "token"
          /\ LET r == transition_to_active(Idle(toks[i].id), current[t]) IN
                /\ toks' = [toks EXCEPT ![i].kind = "guard", ![i].st = r.st,
                                        ![i].thr = t, ![i].entered = r.cur,
                                        ![i].before = current[t]]
                /\ current' = [current EXCEPT ![t] = r.cur]
                /\ stack' = [stack EXCEPT ![t] = Append(@, i)]
                /\ last' = [op |-> "enter", t |-> t, i |-> i, calls |-> 0, fatal |-> <<>>,
                            token |-> None, before |-> current[t], lifo |-> lifo[t]]
    /\ UNCHANGED <<retries, registry, pc, rcu, lifo, panics, aborted>>
    /\ UNCHANGED allocVars

\* impl Drop for AllocationGuard, run on guard i of thread t; in says whether the
\* thread is already unwinding. The result: the thread-local, the panics raised.
DropGuard(g, cur) ==
    LET r == exit_inner(g.st, cur) IN
    [cur |-> r.cur, calls |-> 1,
     fatal |-> IF r.panic = "none" THEN <<>> ELSE <<r.panic>>]

\* AllocationGuard::exit on a guard: exit_inner builds the token, then the
\* consumed guard goes out of scope at the end of exit and its Drop runs (also
\* when exit_inner panicked, as the unwinding drops the guard).
ExitGuard(g, cur) ==
    LET r1 == exit_inner(g.st, cur)
        g2 == [g EXCEPT !.st = r1.st]
        d == DropGuard(g2, r1.cur)
    IN [cur |-> d.cur, calls |-> 1 + d.calls,
        fatal |-> (IF r1.panic = "none" THEN <<>> ELSE <<r1.panic>>) \o d.fatal,
        token |-> r1.id]

\* The guards of thread t still alive, in order of entry, given the tokens tk
\* and the entry order stk.
LiveGuards(tk, stk) == SelectSeq(stk, LAMBDA i : tk[i].kind = "guard")

\* A guard that was destroyed.
Gone(g) == [g EXCEPT !.kind = "gone", !.st = Idle(g.id), !.thr = 0,
                     !.entered = None, !.before = None]

\* What a thread does after an operation raised the panics in fatal and left
\* the tokens tk entered in order stk: it goes on, or it unwinds through the
\* scopes that hold its live guards (and is caught once none is left), or a
\* panic raised while panicking aborts the process.
AfterPanics(t, fatal, tk, stk) ==
    /\ pc' = [pc EXCEPT ![t] =
                 IF (Len(fatal) > 0 \/ @ = "unwind") /\ Len(LiveGuards(tk, stk)) > 0
                 THEN "unwind" ELSE "run"]
    /\ aborted' = (Len(fatal) > 1 \/ (Len(fatal) > 0 /\ pc[t] = "unwind"))

\* guard.exit() on any live guard of the running thread.
Exit(t) ==
    /\ ~aborted /\ pc[t] = "run"
    /\ \E i \in 1..Len(toks) :
          /\ toks[i].kind = "guard" /\ toks[i].thr = t
          /\ LET r == ExitGuard(toks[i], current[t]) IN
                /\ current' = [current EXCEPT ![t] = r.cur]
                /\ toks' = [toks EXCEPT ![i] = Gone(@)]
                /\ stack' = [stack EXCEPT ![t] = Without(@, i)]
                /\ lifo' = [lifo EXCEPT ![t] = @ /\ IsTop(t, i)]
                /\ last' = [op |-> "exit", t |-> t, i |-> i, calls |-> r.calls,
                            fatal |-> r.fatal, token |-> r.token,
                            before |-> toks[i].before, lifo |-> lifo[t] /\ IsTop(t, i)]
                /\ AfterPanics(t, r.fatal, toks', stack'[t])
    /\ UNCHANGED <<retries, registry, rcu, panics>>
    /\ UNCHANGED allocVars

\* A live guard of the running thread is destroyed without exit: its scope
\* ends, or it is passed to mem::drop.
Drop(t) ==
    /\ ~aborted /\ pc[t] = "run" /\ frames[t] = <<>>
    /\ \E i \in 1..Len(toks) :
          /\ toks[i].kind = "guard" /\ toks[i].thr = t
          /\ LET r == DropGuard(toks[i], current[t]) IN
                /\ current' = [current EXCEPT ![t] = r.cur]
                /\ toks' = [toks EXCEPT ![i] = Gone(@)]
                /\ stack' = [stack EXCEPT ![t] = Without(@, i)]
                /\ lifo' = [lifo EXCEPT ![t] = @ /\ IsTop(t, i)]
                /\ last' = [op |-> "drop", t |-> t, i |-> i, calls |-> r.calls,
                            fatal |-> r.fatal, token |-> None,
                            before |-> toks[i].before, lifo |-> lifo[t] /\ IsTop(t, i)]
                /\ AfterPanics(t, r.fatal, toks', stack'[t])
    /\ UNCHANGED <<retries, registry, rcu, panics>>
    /\ UNCHANGED allocVars

\* Code running under the guards panics for a reason of its own.
Panic(t) ==
    /\ ~aborted /\ pc[t] = "run"
    /\ panics < MaxPanics
    /\ panics' = panics + 1
    /\ last' = [NoOp EXCEPT !.op = "panic", !.t = t]
    /\ UNCHANGED <<toks, stack>>
    /\ AfterPanics(t, <<"user">>, toks', stack'[t])
    /\ UNCHANGED <<retries, registry, rcu, current, lifo>>
    /\ UNCHANGED allocVars

\* The unwinding leaves a scope holding a guard: the most recently entered
\* live guard of the thread is dropped.
UnwindDrop(t) ==
    /\ ~aborted /\ pc[t] = "unwind"
    /\ Len(LiveGuards(toks, stack[t])) > 0
    /\ LET i == Top(LiveGuards(toks, stack[t]))
           r == DropGuard(toks[i], current[t]) IN
          /\ current' = [current EXCEPT ![t] = r.cur]
          /\ toks' = [toks EXCEPT ![i] = Gone(@)]
          /\ stack' = [stack EXCEPT ![t] = Without(@, i)]
          /\ lifo' = [lifo EXCEPT ![t] = @ /\ IsTop(t, i)]
          /\ last' = [op |-> "unwind", t |-> t, i |-> i, calls |-> r.calls,
                      fatal |-> r.fatal, token |-> None,
                      before |-> toks[i].before, lifo |-> lifo[t] /\ IsTop(t, i)]
          /\ AfterPanics(t, r.fatal, toks', stack'[t])
    /\ UNCHANGED <<retries, registry, rcu, panics>>
    /\ UNCHANGED allocVars

\* ---------------------------------------------------------- unmanaged tokens
\* AllocationGroupToken::into_unsafe: the token becomes an
\* UnsafeAllocationGroupToken in state Idle(id).
IntoUnsafe(t) ==
    /\ ~aborted /\ pc[t] = "run"
    /\ \E i \in 1..Len(toks) :
          /\ toks[i].kind = "token"
          /\ Cardinality({j \in 1..Len(toks) : toks[j].kind = "unsafe"}) < MaxUnsafe
          /\ toks' = [toks EXCEPT ![i].kind = "unsafe", ![i].st = Idle(toks[i].id)]
    /\ UNCHANGED <<retries, registry, pc, rcu, current, stack, lifo, panics, aborted, last>>
    /\ UNCHANGED allocVars

\* The unmanaged tokens thread t may call: an idle one, or one it entered
\* (between enter and exit the token does not change threads).
Callable(t, i) ==
    /\ toks[i].kind = "unsafe"
    /\ toks[i].st.tag = "Active" => toks[i].thr = t

\* UnsafeAllocationGroupToken::enter
UnsafeEnter(t) ==
    /\ ~aborted /\ pc[t] = "run" /\ frames[t] = <<>>
    /\ \E i \in 1..Len(toks) :
          /\ Callable(t, i)
          /\ LET r == transition_to_active(toks[i].st, current[t])
                 ok == r.panic = "none" IN
                /\ toks' = [toks EXCEPT ![i].st = r.st,
                                        ![i].thr = IF ok THEN t ELSE @,
                                        ![i].entered = IF ok THEN r.cur ELSE @,
                                        ![i].before = IF ok THEN current[t] ELSE @]
                /\ current' = [current EXCEPT ![t] = r.cur]
                /\ stack' = [stack EXCEPT ![t] = IF ok THEN Append(@, i) ELSE @]
                /\ last' = [op |-> "uenter", t |-> t, i |-> i, calls |-> 0,
                            fatal |-> IF ok THEN <<>> ELSE <<r.panic>>,
                            token |-> None, before |-> current[t], lifo |-> lifo[t]]
                /\ AfterPanics(t, IF ok THEN <<>> ELSE <<r.panic>>, toks', stack'[t])
    /\ UNCHANGED <<retries, registry, rcu, lifo, panics>>
    /\ UNCHANGED allocVars

\* UnsafeAllocationGroupToken::exit
UnsafeExit(t) ==
    /\ ~aborted /\ pc[t] = "run"
    /\ \E i \in 1..Len(toks) :
          /\ Callable(t, i)
          /\ LET r == transition_to_idle(toks[i].st, current[t])
                 was == toks[i].st.tag = "Active"
                 ok == r.panic = "none"
                 nowLifo == IF was THEN lifo[t] /\ IsTop(t, i) ELSE lifo[t] IN
                /\ toks' = [toks EXCEPT ![i].st = r.st,
                                        ![i].thr = IF ok THEN 0 ELSE @,
                                        ![i].entered = IF ok THEN None ELSE @,
                                        ![i].before = IF ok THEN None ELSE @]
                /\ current' = [current EXCEPT ![t] = r.cur]
                /\ stack' = [stack EXCEPT ![t] = IF ok THEN Without(@, i) ELSE @]
                /\ lifo' = [lifo EXCEPT ![t] = nowLifo]
                /\ last' = [op |-> IF was THEN "uexit" ELSE "uexit_idle", t |-> t, i |-> i, calls |-> 1,
                            fatal |-> IF ok THEN <<>> ELSE <<r.panic>>,
                            token |-> r.id, before |-> toks[i].before, lifo |-> nowLifo]
                /\ AfterPanics(t, IF ok THEN <<>> ELSE <<r.panic>>, toks', stack'[t])
    /\ UNCHANGED <<retries, registry, rcu, panics>>
    /\ UNCHANGED allocVars

NextRegistry ==
    \E t \in Threads :
        \/ Acquire(t)
        \/ AcquireWithTags(t)
        \/ RcuCasOk(t)
        \/ RcuCasRetry(t)

\* Concurrent acquisition on an initially empty registry.
SpecRegistry == Init /\ [][NextRegistry]_vars

\* The same with every thread that is inside rcu going on to its next
\* compare-and-swap: a running thread is not held back by anything.
SpecRegistryFair ==
    Init /\ [][NextRegistry]_vars
         /\ \A t \in Threads : WF_vars(RcuCasOk(t) \/ RcuCasRetry(t))

\* ------------------------------------------------------- registry properties
ReturnedIds == {toks[i].id : i \in 1..Len(toks)}
AllReturned == \A t \in Threads : pc[t] # "cas"

\* C1: once every acquire / acquire_with_tags call issued on the initially
\* empty registry has returned, the N returned identifiers are exactly
\* 0..N-1, no two calls returned the same one, and the registry holds exactly
\* N entries.
C1_DenseUniqueIds ==
    AllReturned =>
        /\ ReturnedIds = 0..(Len(toks) - 1)
        /\ \A i, j \in 1..Len(toks) : toks[i].id = toks[j].id => i = j
        /\ Len(registry.vec) = Len(toks)

\* C1 witness: three calls have returned and the closure of at least one
\* was retried after losing the compare-and-swap.
C1_Witness == AllReturned /\ Len(toks) >= 3 /\ retries >= 1

\* C7: the identifier every returned call got maps, in the registry as it is
\* now, to the tag set that call asked for (none for acquire), however many
\* appends followed.
C7_TagsRoundTrip ==
    \A i \in 1..Len(toks) : Lookup(registry, toks[i].id) = toks[i].tags

\* C7 witness: a tagged group is looked up after two later appends, one of
\* them with other tags.
C7_Witness ==
    /\ Len(toks) >= 3
    /\ toks[1].tags = Some(<< <<"k", "v">> >>)
    /\ toks[3].tags = Some(<< <<"k", "w">> >>)
    /\ Lookup(registry, toks[1].id) = Some(<< <<"k", "v">> >>)

\* C9: no returned token holds the identifier 0.
C9_NeverIdZero == \A i \in 1..Len(toks) : toks[i].id # 0

\* ---------------------------------------------------------------- layouts
\* Layout::new::<usize>() on a 64-bit target.
HeaderSize == 8
HeaderAlign == 8
HEADER_LAYOUT == [size |-> HeaderSize, align |-> HeaderAlign]

\* The layouts the program asks for.
Layouts == { [size |-> 1, align |-> 1], [size |-> 24, align |-> 16] }

Max(a, b) == IF a >= b THEN a ELSE b
RoundUp(n, a) == ((n + a - 1) \div a) * a

\* Layout::extend: next placed after self, padded to next's alignment.
LayoutExtend(self, next) ==
    [layout |-> [size |-> RoundUp(self.size, next.align) + next.size,
                 align |-> Max(self.align, next.align)],
     offset |-> RoundUp(self.size, next.align)]

\* Layout::pad_to_align
PadToAlign(l) == [l EXCEPT !.size = RoundUp(l.size, l.align)]

\* get_wrapped_layout: the header followed by the object.
get_wrapped_layout(object_layout) ==
    LET e == LayoutExtend(HEADER_LAYOUT, object_layout) IN
    [layout |-> PadToAlign(e.layout), offset |-> e.offset]

\* ---------------------------------------------------------------- tracking
\* The addresses the backing allocator hands out: one region per live block,
\* aligned for every layout of Layouts.
SlotBase(k) == 64 * k
FreeSlots ==
    {k \in 1..MaxAllocs :
        \A b \in 1..Len(blocks) : blocks[b].state = "freed" \/ blocks[b].addr # SlotBase(k)}

\* A wrapped allocation whose header is left as the backing allocator
\* returned it, here holding an old nonzero word.
get_wrapped_allocation_unzeroed(object_layout, actual_ptr) ==
    LET w == get_wrapped_layout(object_layout) IN
    [hdr |-> 1, object_ptr |-> actual_ptr + w.offset, actual_layout |-> w.layout]

\* get_wrapped_allocation once inner.alloc returned the non-null actual_ptr:
\* the zeroed header, the object pointer, the wrapped layout.
get_wrapped_allocation(object_layout, actual_ptr) ==
    LET w == get_wrapped_layout(object_layout) IN
    [hdr |-> 0, object_ptr |-> actual_ptr + w.offset, actual_layout |-> w.layout]

\* try_with_suspended_allocation_group: whether the closure runs on a thread
\* whose suspension flag is susp, and the active group it is given.
try_with_suspended_allocation_group(susp, cur) == [run |-> ~susp, group |-> cur]

\* AllocationGroupId::from_raw: zero is no group.
from_raw(raw) == IF raw = 0 THEN None ELSE Some(raw)

\* An alloc that asks for the active group without the suspension check.
AllocTracksUnsuspended(trk, s) == trk /\ s.group.some

\* alloc reports the allocation when a tracker is registered and the
\* suspension-aware lookup hands its closure an active group.
AllocTracks(trk, s) == trk /\ s.run /\ s.group.some

\* A dealloc that reports whatever the header holds.
DeallocTracksAny(trk, raw, s) == trk /\ s.run

\* dealloc reports the deallocation when a tracker is registered, the header
\* holds a group and the suspension-aware lookup runs its closure.
DeallocTracks(trk, raw, s) == trk /\ from_raw(raw).some /\ s.run

\* get_global_tracker turns Some: the tracker is registered, once.
SetGlobalTracker ==
    /\ ~aborted /\ ~tracker
    /\ tracker' = TRUE
    /\ UNCHANGED <<registry, pc, rcu, retries, toks, current, stack, lifo, panics, aborted, last>>
    /\ UNCHANGED <<suspended, frames, blocks, events, calls>>

\* Allocator::alloc on the non-null actual_ptr, up to the return of the
\* tracker's allocated callback (or to its own return when nothing is reported). The block keeps, besides what
\* the program holds (addr, obj, layout, hdr), the circumstances of the call:
\* atrk, agrp and adepth are the tracker registration, the thread's active
\* group and its callback depth at allocation, ddepth the callback depth of
\* the freeing thread, inner_layout the layout inner.alloc was asked for.
AllocReturns(t, object_layout, actual_ptr) ==
          LET a == get_wrapped_allocation(object_layout, actual_ptr)
              s == try_with_suspended_allocation_group(suspended[t], current[t])
              tracked == AllocTracks(tracker, s)
              b == Len(blocks) + 1
          IN /\ blocks' = Append(blocks,
                    [addr |-> actual_ptr, obj |-> a.object_ptr, layout |-> object_layout,
                     hdr |-> IF tracked THEN s.group.v ELSE a.hdr,
                     state |-> IF tracked THEN "pending" ELSE "live",
                     atrk |-> tracker, agrp |-> current[t], adepth |-> Len(frames[t]),
                     ddepth |-> 0, inner_layout |-> a.actual_layout,
                     rel |-> 0, rel_ptr |-> 0, rel_layout |-> HEADER_LAYOUT])
             /\ events' = IF tracked
                           THEN Append(events,
                                  [kind |-> "allocated", b |-> b, addr |-> a.object_ptr,
                                   size |-> object_layout.size,
                                   wrapped |-> a.actual_layout.size,
                                   group |-> s.group.v, current |-> None])
                           ELSE events
             /\ frames' = [frames EXCEPT ![t] =
                              IF tracked
                              THEN Append(@, [kind |-> "allocated", b |-> b,
                                              was |-> suspended[t]])
                              ELSE @]
             /\ suspended' = [suspended EXCEPT ![t] = IF tracked THEN TRUE ELSE @]
             /\ UNCHANGED <<tracker, aborted, last, calls>>

\* handle_alloc_error: it does not return; the process ends with nothing
\* written and nothing reported.
handle_alloc_error(t) ==
    /\ aborted' = TRUE
    /\ last' = [NoOp EXCEPT !.op = "alloc_null", !.t = t]
    /\ UNCHANGED allocVars

\* A wrapped allocation that goes on whatever inner.alloc returned.
AllocUnchecked(t, object_layout, actual_ptr) == AllocReturns(t, object_layout, actual_ptr)

\* Allocator::alloc once inner.alloc answered actual_ptr:
\* get_wrapped_allocation tests it for null before anything else.
AllocChecked(t, object_layout, actual_ptr) ==
    IF actual_ptr = 0
    THEN handle_alloc_error(t)
    ELSE AllocReturns(t, object_layout, actual_ptr)

\* alloc with the backing allocator handing out a free region.
Alloc(t) ==
    /\ ~aborted /\ pc[t] = "run"
    /\ Len(blocks) < MaxAllocs
    /\ \E object_layout \in Layouts, k \in FreeSlots :
          AllocChecked(t, object_layout, SlotBase(k))
    /\ UNCHANGED <<registry, pc, rcu, retries, toks, current, stack, lifo, panics>>

\* alloc with the backing allocator out of memory: inner.alloc returns null.
AllocFail(t) ==
    /\ ~aborted /\ pc[t] = "run"
    /\ Len(blocks) < MaxAllocs
    /\ \E object_layout \in Layouts : AllocChecked(t, object_layout, 0)
    /\ UNCHANGED <<registry, pc, rcu, retries, toks, current, stack, lifo, panics>>

\* A read that takes the header's word from somewhere else.
ReadHeaderElsewhere(actual_ptr) == 1

\* The header dealloc reads at actual_ptr.
ReadHeader(actual_ptr) ==
    LET b == CHOOSE b \in 1..Len(blocks) :
                 blocks[b].state # "freed" /\ blocks[b].addr = actual_ptr
    IN blocks[b].hdr

\* dealloc's first statements on block b (allocator.rs:97-108): the wrapped
\* layout is computed again from the caller's layout, the object pointer is
\* stepped back to the region and the header word is read.
DeallocHeader(b) ==
    LET w == get_wrapped_layout(blocks[b].layout) IN
    [actual_ptr |-> blocks[b].obj - w.offset, wrapped_layout |-> w.layout,
     raw_group_id |-> ReadHeader(blocks[b].obj - w.offset)]

\* A release that hands the backing allocator the caller's object pointer and
\* layout instead of the region's.
InnerDeallocObject(blks, b, actual_ptr, wrapped_layout) ==
    [blks EXCEPT ![b].state = "freed", ![b].rel = @ + 1,
                 ![b].rel_ptr = blks[b].obj, ![b].rel_layout = blks[b].layout]

\* self.inner.dealloc(actual_ptr, wrapped_layout) for block b: the region is
\* the backing allocator's again; rel counts the releases, rel_ptr and
\* rel_layout are what the backing allocator was given.
InnerDealloc(blks, b, actual_ptr, wrapped_layout) ==
    [blks EXCEPT ![b].state = "freed", ![b].rel = @ + 1,
                 ![b].rel_ptr = actual_ptr, ![b].rel_layout = wrapped_layout]

\* The end of dealloc (allocator.rs:113-132) on thread t for block b whose
\* header held raw_group_id: the deallocated callback is invoked, or not.
DeallocReport(t, b, raw_group_id) ==
    LET w == get_wrapped_layout(blocks[b].layout)
        s == try_with_suspended_allocation_group(suspended[t], current[t])
        tracked == DeallocTracks(tracker, raw_group_id, s)
    IN /\ events' = IF tracked
                     THEN Append(events,
                            [kind |-> "deallocated", b |-> b,
                             addr |-> blocks[b].obj,
                             size |-> blocks[b].layout.size,
                             wrapped |-> w.layout.size,
                             group |-> from_raw(raw_group_id).v,
                             current |-> s.group])
                     ELSE events
       /\ frames' = [frames EXCEPT ![t] =
                        IF tracked
                        THEN Append(@, [kind |-> "deallocated", b |-> b,
                                        was |-> suspended[t]])
                        ELSE @]
       /\ suspended' = [suspended EXCEPT ![t] = IF tracked THEN TRUE ELSE @]

\* Allocator::dealloc of a block the program holds, with the layout it was
\* allocated with, up to the return of the tracker's deallocated callback.
Dealloc(t) ==
    /\ ~aborted /\ pc[t] = "run"
    /\ \E b \in 1..Len(blocks) :
          /\ blocks[b].state = "live"
          /\ LET h == DeallocHeader(b) IN
                /\ blocks' = InnerDealloc([blocks EXCEPT ![b].ddepth = Len(frames[t])],
                                          b, h.actual_ptr, h.wrapped_layout)
                /\ DeallocReport(t, b, h.raw_group_id)
    /\ UNCHANGED <<registry, pc, rcu, retries, toks, current, stack, lifo, panics, aborted, last>>
    /\ UNCHANGED <<tracker, calls>>

\* The tracker callback running on thread t returns: the suspension is put
\* back as it was, and an alloc hands its object pointer to the caller.
CallbackReturn(t) ==
    /\ ~aborted /\ pc[t] = "run"
    /\ frames[t] # <<>>
    /\ LET f == Top(frames[t]) IN
          /\ frames' = [frames EXCEPT ![t] = SubSeq(@, 1, Len(@) - 1)]
          /\ suspended' = [suspended EXCEPT ![t] = f.was]
          /\ blocks' = IF f.kind = "allocated"
                        THEN [blocks EXCEPT ![f.b].state = "live"]
                        ELSE blocks
    /\ UNCHANGED <<registry, pc, rcu, retries, toks, current, stack, lifo, panics, aborted, last>>
    /\ UNCHANGED <<tracker, events, calls>>

\* ------------------------------------------------------- dealloc, by steps
\* A dealloc that invokes the tracker before it releases the region.
DeallocOrderTrackFirst == <<"read", "track", "release">>

\* The statements of Allocator::dealloc in the order of the source: the header
\* read (allocator.rs:108), inner.dealloc (line 111), the tracking (117-132).
DeallocOrder == <<"read", "release", "track">>

\* The dealloc call of thread t is in progress and about to run statement name.
AtStep(t, name) ==
    /\ ~aborted /\ pc[t] = "dealloc"
    /\ calls[t].k \in 1..Len(DeallocOrder)
    /\ DeallocOrder[calls[t].k] = name

\* The call c of thread t goes on to its next statement, or returns.
Advance(t, c) ==
    /\ calls' = [calls EXCEPT ![t] = IF c.k < Len(DeallocOrder)
                                     THEN [c EXCEPT !.k = @ + 1] ELSE NoCall]
    /\ pc' = [pc EXCEPT ![t] = IF c.k < Len(DeallocOrder) THEN "dealloc" ELSE "run"]

\* Thread t calls dealloc on a block the program holds and reads its header.
DeallocRead(t) ==
    /\ ~aborted /\ pc[t] = "run" /\ calls[t] = NoCall
    /\ DeallocOrder[1] = "read"
    /\ \E b \in 1..Len(blocks) :
          /\ blocks[b].state = "live"
          /\ blocks' = [blocks EXCEPT ![b].state = "freeing",
                                      ![b].ddepth = Len(frames[t])]
          /\ Advance(t, [b |-> b, raw |-> DeallocHeader(b).raw_group_id, k |-> 1])
    /\ UNCHANGED <<registry, rcu, retries, toks, current, stack, lifo, panics, aborted, last>>
    /\ UNCHANGED <<tracker, suspended, frames, events>>

\* The call releases the region to the backing allocator.
DeallocRelease(t) ==
    /\ AtStep(t, "release")
    /\ LET b == calls[t].b
           h == DeallocHeader(b) IN
          blocks' = InnerDealloc(blocks, b, h.actual_ptr, h.wrapped_layout)
    /\ Advance(t, calls[t])
    /\ UNCHANGED <<registry, rcu, retries, toks, current, stack, lifo, panics, aborted, last>>
    /\ UNCHANGED <<tracker, suspended, frames, events>>

\* The call reaches its tracking branch with the header word it read.
DeallocTrack(t) ==
    /\ AtStep(t, "track")
    /\ DeallocReport(t, calls[t].b, calls[t].raw)
    /\ Advance(t, calls[t])
    /\ UNCHANGED <<registry, rcu, retries, toks, current, stack, lifo, panics, aborted, last>>
    /\ UNCHANGED <<tracker, blocks>>

\* The tracker callback running on thread t fails: a panic that leaves the
\* global allocator ends the process.
CallbackFails(t) ==
    /\ ~aborted /\ pc[t] = "run"
    /\ frames[t] # <<>>
    /\ aborted' = TRUE
    /\ last' = [NoOp EXCEPT !.op = "tracker_panic", !.t = t]
    /\ UNCHANGED <<registry, pc, rcu, retries, toks, current, stack, lifo, panics>>
    /\ UNCHANGED allocVars

\* --------------------------------------------------------- acquired tokens
\* The registry after n acquire() calls made one after the other.
RECURSIVE AcquiredRegistry(_)
AcquiredRegistry(n) ==
    IF n = 0 THEN EmptyRegistry
    ELSE [ptr |-> AcquiredRegistry(n - 1).ptr + 1,
          vec |-> RcuClosure(AcquiredRegistry(n - 1), None).new]

\* The token the k-th of these calls returned.
AcquiredToken(k) == NewToken(RcuClosure(AcquiredRegistry(k - 1), None))

\* The process after n acquire() calls: their tokens are held, nothing is
\* entered yet, no tracker is registered, nothing is allocated.
Acquired(n) ==
    /\ registry = AcquiredRegistry(n)
    /\ toks = [k \in 1..n |-> AcquiredToken(k)]
    /\ pc = [t \in Threads |-> "run"]
    /\ rcu = [t \in Threads |-> NoRcu]
    /\ retries = 0
    /\ current = [t \in Threads |-> None]
    /\ stack = [t \in Threads |-> <<>>]
    /\ lifo = [t \in Threads |-> TRUE]
    /\ panics = 0
    /\ aborted = FALSE
    /\ last = NoOp
    /\ tracker = FALSE
    /\ suspended = [t \in Threads |-> FALSE]
    /\ frames = [t \in Threads |-> <<>>]
    /\ blocks = <<>>
    /\ events = <<>>
    /\ calls = [t \in Threads |-> NoCall]

InitGuards == Acquired(MaxAcquire)
InitAlloc == Acquired(AllocGroups)

NextGuards ==
    \E t \in Threads :
        \/ Enter(t)
        \/ Exit(t)
        \/ Drop(t)
        \/ IntoUnsafe(t)
        \/ UnsafeEnter(t)
        \/ UnsafeExit(t)
        \/ Panic(t)
        \/ UnwindDrop(t)

\* Guards and unmanaged tokens entered and exited on the threads, over tokens
\* acquired beforehand.
SpecGuards == InitGuards /\ [][NextGuards]_vars

NextAlloc ==
    \/ SetGlobalTracker
    \/ \E t \in Threads :
        \/ Enter(t)
        \/ Drop(t)
        \/ Alloc(t)
        \/ AllocFail(t)
        \/ Dealloc(t)
        \/ CallbackReturn(t)

\* Allocations and deallocations through the shim on threads that enter and
\* leave groups acquired beforehand.
SpecAlloc == InitAlloc /\ [][NextAlloc]_vars

NextDealloc ==
    \/ SetGlobalTracker
    \/ \E t \in Threads :
        \/ Enter(t)
        \/ Alloc(t)
        \/ DeallocRead(t)
        \/ DeallocRelease(t)
        \/ DeallocTrack(t)
        \/ CallbackReturn(t)
        \/ CallbackFails(t)

\* The shim with each dealloc call taken statement by statement, so that the
\* other threads run between its header read, its release and its tracking.
SpecDealloc == InitAlloc /\ [][NextDealloc]_vars

\* ---------------------------------------------------------- guard properties
\* C2: a manual exit of a guard deactivates exactly once (the Drop that ends
\* exit attempts no second deactivation) and raises no fatal condition.
C2_ExitRestoresOnce == last.op = "exit" => last.calls = 1 /\ last.fatal = <<>>

\* The group a thread has active when every exit so far was in reverse order
\* of entry: the one entered last among those still entered, or none.
TopGroup(t) == IF stack[t] = <<>> THEN None ELSE toks[Top(stack[t])].entered

\* C3: while the guards and unmanaged tokens of a thread are exited in strict
\* reverse order of entry, each exit leaves the thread's active group equal to
\* what was active immediately before the matching enter, and the active group
\* is always the innermost one still entered (none when nothing is entered).
C3_LifoRestore ==
    /\ (last.op \in {"exit", "drop", "unwind", "uexit"} /\ last.lifo)
          => current[last.t] = last.before
    /\ \A t \in Threads : lifo[t] => current[t] = TopGroup(t)

\* C3 witness: group 1 was entered inside group 0 and exited first, group 0
\* is active again; the exit of group 0 is still to come.
C3_Witness ==
    /\ last.op \in {"exit", "drop"} /\ last.lifo
    /\ toks[last.i].id = 1 /\ last.before = Some(0)
    /\ current[last.t] = Some(0)
    /\ Len(stack[last.t]) = 1 /\ toks[stack[last.t][1]].before = None

\* C8: a guard destroyed without exit (scope end, mem::drop, unwinding) is
\* deactivated exactly once, and right after it the thread's active group is
\* the value it had immediately before the guard was entered.
C8_DropRestores ==
    last.op \in {"drop", "unwind"} => last.calls = 1 /\ current[last.t] = last.before

\* C8 witness: an unwinding destroyed a guard entered while group 0 was
\* active, and group 0 is active again.
C8_Witness ==
    /\ last.op = "unwind" /\ last.calls = 1
    /\ last.before = Some(0) /\ current[last.t] = Some(0)

\* C10: the token exit builds holds the identifier of the token that enter
\* consumed to create the guard.
C10_ExitReturnsSameId == last.op = "exit" => last.token = Some(toks[last.i].id)

\* ------------------------------------------------------ allocator properties
\* The events of one kind the tracker received for block b.
EventsOf(b, kind) ==
    {e \in 1..Len(events) : events[e].b = b /\ events[e].kind = kind}

\* C4: a block allocated with a tracker registered, tracking not suspended
\* and group G active, and later freed (tracking not suspended), produced
\* exactly one allocated event, with group_id = G and requested_size = S, and
\* exactly one deallocated event, with source_group_id = G.
C4_AttributionRoundTrip ==
    \A b \in 1..Len(blocks) :
        (/\ blocks[b].state = "freed"
         /\ blocks[b].atrk /\ blocks[b].agrp.some
         /\ blocks[b].adepth = 0 /\ blocks[b].ddepth = 0)
        => /\ Cardinality(EventsOf(b, "allocated")) = 1
           /\ \A e \in EventsOf(b, "allocated") :
                 /\ events[e].group = blocks[b].agrp.v
                 /\ events[e].size = blocks[b].layout.size
           /\ Cardinality(EventsOf(b, "deallocated")) = 1
           /\ \A e \in EventsOf(b, "deallocated") :
                 events[e].group = blocks[b].agrp.v

\* The object pointer of block b lies past the header, inside the wrapped
\* region, at the requested alignment.
ValidObject(b) ==
    LET w == get_wrapped_layout(blocks[b].layout) IN
    /\ blocks[b].obj # 0
    /\ blocks[b].obj >= blocks[b].addr + HeaderSize
    /\ blocks[b].obj % blocks[b].layout.align = 0
    /\ blocks[b].obj + blocks[b].layout.size <= blocks[b].addr + w.layout.size

\* C5: a block allocated while no group was active on the thread, or while
\* no tracker was registered, keeps a zero header, has a valid object pointer
\* returned at once, and neither its allocation nor its deallocation (whenever
\* and wherever it happens) is reported to the tracker.
C5_Unattributed ==
    \A b \in 1..Len(blocks) :
        (~blocks[b].agrp.some \/ ~blocks[b].atrk)
        => /\ blocks[b].hdr = 0
           /\ blocks[b].state # "pending"
           /\ ValidObject(b)
           /\ EventsOf(b, "allocated") = {}
           /\ EventsOf(b, "deallocated") = {}

\* C5 witness: a block allocated with no group active was freed on a thread
\* with a group active and the tracker registered, and another block was
\* allocated under a group before the tracker was registered.
C5_Witness ==
    \E b, c \in 1..Len(blocks), t \in Threads :
        /\ ~blocks[b].agrp.some /\ blocks[b].atrk /\ blocks[b].state = "freed"
        /\ tracker /\ current[t].some /\ events = <<>>
        /\ blocks[c].agrp.some /\ ~blocks[c].atrk

\* C6: no thread ever runs a tracker callback inside a tracker callback, and
\* a block allocated inside a callback has a zero header, is returned at once
\* and is never reported; a block freed inside a callback has no deallocated
\* event.
C6_NoReentrantTracking ==
    /\ \A t \in Threads : Len(frames[t]) <= 1
    /\ \A b \in 1..Len(blocks) :
          /\ blocks[b].adepth > 0
                => /\ blocks[b].hdr = 0
                   /\ blocks[b].state # "pending"
                   /\ EventsOf(b, "allocated") = {}
                   /\ EventsOf(b, "deallocated") = {}
          /\ (blocks[b].state = "freed" /\ blocks[b].ddepth > 0)
                => EventsOf(b, "deallocated") = {}

\* C6 witness: while the allocated callback of a block runs on a thread with
\* a group active, that thread allocated a second block and freed it again.
C6_Witness ==
    \E t \in Threads, b, c \in 1..Len(blocks) :
        /\ Len(frames[t]) = 1 /\ Top(frames[t]).kind = "allocated" /\ Top(frames[t]).b = b
        /\ blocks[b].state = "pending" /\ current[t].some /\ tracker
        /\ blocks[c].adepth = 1 /\ blocks[c].state = "freed" /\ blocks[c].ddepth = 1
        /\ blocks[c].hdr = 0

\* ------------------------------------------------------ fatal transitions
\* C11: UnsafeAllocationGroupToken::enter on a state that is already Active
\* and UnsafeAllocationGroupToken::exit on a state that is already Idle are
\* fatal, and both leave the thread's active group and the state value as they
\* were before the call; so does a deactivation of any Idle state.
C11_FatalLeavesUnchanged ==
    /\ [][\A t \in Threads :
            /\ (UnsafeEnter(t) /\ toks[last'.i].st.tag = "Active")
                  => /\ last'.fatal = <<"active->active">>
                     /\ current'[t] = current[t]
                     /\ toks'[last'.i].st = toks[last'.i].st
            /\ (UnsafeExit(t) /\ toks[last'.i].st.tag = "Idle")
                  => /\ last'.fatal = <<"idle->idle">>
                     /\ current'[t] = current[t]
                     /\ toks'[last'.i].st = toks[last'.i].st]_vars
    /\ [](\A t \in Threads, i \in 1..Len(toks) :
            toks[i].st.tag = "Idle"
               => LET r == transition_to_idle(toks[i].st, current[t]) IN
                     r.panic = "idle->idle" /\ r.cur = current[t] /\ r.st = toks[i].st)

\* C11 witness: an unmanaged token entered while another group was active was
\* entered a second time; the call was fatal and the token's group is still
\* the active one.
C11_Witness ==
    /\ last.op = "uenter" /\ last.fatal = <<"active->active">>
    /\ toks[last.i].st = Active(Some(0))
    /\ current[last.t] = toks[last.i].entered

\* C12: when the backing allocator returns null for the wrapped layout, alloc
\* ends in the fatal allocation-failure path: the process is over, no header
\* was written, no tracker callback was invoked or is running for it, and no
\* block was handed to the caller.
C12_NullIsFatal ==
    [][\A t \in Threads :
          AllocFail(t) => /\ aborted'
                          /\ blocks' = blocks
                          /\ events' = events
                          /\ frames' = frames
                          /\ suspended' = suspended]_vars

\* C12 witness: an alloc that would have been tracked (tracker registered, a
\* group active, tracking not suspended) got null from the backing allocator
\* after an earlier block had been allocated and reported.
C12_Witness ==
    /\ aborted /\ last.op = "alloc_null"
    /\ tracker /\ current[last.t].some /\ ~suspended[last.t]
    /\ Len(blocks) = 1 /\ Len(events) = 1

\* C13: every deallocated event the tracker received comes after an allocated
\* event for the same allocation, and its source group is that event's group;
\* so no deallocated event exists for a block that was allocated unreported.
C13_DeallocAfterAlloc ==
    \A e \in 1..Len(events) :
        events[e].kind = "deallocated"
        => /\ \E a \in 1..(e - 1) :
                 /\ events[a].kind = "allocated"
                 /\ events[a].b = events[e].b
                 /\ events[a].addr = events[e].addr
                 /\ events[a].group = events[e].group
           /\ LET b == events[e].b IN
                 blocks[b].atrk /\ blocks[b].agrp.some /\ blocks[b].adepth = 0

\* C13 witness: a block allocated under group 1 was freed while group 0 was
\* active and reported with source group 1, and a block allocated before the
\* tracker was registered was freed after it, unreported.
C13_Witness ==
    \E e \in 1..Len(events), c \in 1..Len(blocks) :
        /\ events[e].kind = "deallocated"
        /\ events[e].group = 1 /\ events[e].current = Some(0)
        /\ ~blocks[c].atrk /\ blocks[c].state = "freed" /\ tracker
        /\ EventsOf(c, "deallocated") = {}

\* C14: the deallocated event a dealloc call reports carries as source group
\* the group that was active on the allocating thread at allocation, which is
\* what the header holds, and as current group the group (or none) active on
\* the deallocating thread at the call, whatever the other one is.
C14_SourceAndCurrent ==
    [][\A t \in Threads :
          (Dealloc(t) /\ Len(frames'[t]) > Len(frames[t]))
          => LET e == events'[Len(events')] IN
                /\ Len(events') = Len(events) + 1
                /\ e.kind = "deallocated"
                /\ blocks[e.b].state = "live" /\ blocks'[e.b].state = "freed"
                /\ Some(e.group) = blocks[e.b].agrp
                /\ e.group = blocks[e.b].hdr
                /\ e.current = current[t]]_vars

\* C14 witness: of two blocks allocated under group 1, one was freed with no
\* group active and one with group 0 active; both events name group 1 as the
\* source and differ in the current group.
C14_Witness ==
    \E e, f \in 1..Len(events) :
        /\ events[e].kind = "deallocated" /\ events[f].kind = "deallocated"
        /\ events[e].group = 1 /\ events[e].current = None
        /\ events[f].group = 1 /\ events[f].current = Some(0)

\* ------------------------------------------------------ order inside dealloc
\* The dealloc calls that have returned or reached the tracker: the blocks
\* handed to dealloc with no call in progress on them.
Deallocated(b) ==
    /\ blocks[b].state \in {"freeing", "freed"}
    /\ \A t \in Threads : calls[t].b # b

\* C15: a dealloc call has read the header before it releases the region, and
\* has released the region before the tracker's deallocated callback is
\* invoked; the region is released exactly once per call, whether the
\* callback is invoked, skipped or fails.
C15_ReleaseBeforeCallback ==
    /\ \A e \in 1..Len(events) :
          events[e].kind = "deallocated" => blocks[events[e].b].rel = 1
    /\ \A t \in Threads :
          calls[t] # NoCall
          => /\ calls[t].raw = blocks[calls[t].b].hdr
             /\ blocks[calls[t].b].rel = (IF DeallocOrder[calls[t].k] = "track" THEN 1 ELSE 0)
    /\ \A b \in 1..Len(blocks) :
          /\ blocks[b].rel <= 1
          /\ Deallocated(b) => blocks[b].rel = 1

\* C15 witness: the deallocated callback of one block failed after the block's
\* region was released, and another block was released with its callback
\* skipped.
C15_Witness ==
    \E b, c \in 1..Len(blocks) :
        /\ aborted /\ last.op = "tracker_panic"
        /\ Top(frames[last.t]).kind = "deallocated" /\ Top(frames[last.t]).b = b
        /\ blocks[b].rel = 1 /\ EventsOf(b, "deallocated") # {}
        /\ Deallocated(c) /\ blocks[c].rel = 1 /\ EventsOf(c, "deallocated") = {}

\* ------------------------------------------------- backing allocator calls
\* What a shim that tracks nothing asks of the backing allocator for a block
\* of the given layout placed at addr: one alloc of the wrapped layout, one
\* dealloc of that region with that layout.
UntrackedBacking(layout, addr) ==
    [alloc |-> get_wrapped_layout(layout).layout,
     dealloc |-> <<addr, get_wrapped_layout(layout).layout>>]

\* C16: for every block, whatever the tracker registration, the active group
\* and the suspension were at its alloc and its dealloc, the backing allocator
\* was asked for the wrapped layout once, and once the dealloc call is over it
\* was given back that region with that layout exactly once; two blocks of the
\* same layout get the same backing requests.
C16_BackingIndependent ==
    \A b \in 1..Len(blocks) :
        LET u == UntrackedBacking(blocks[b].layout, blocks[b].addr) IN
        /\ blocks[b].inner_layout = u.alloc
        /\ blocks[b].rel <= 1
        /\ blocks[b].rel = 0 => ~Deallocated(b)
        /\ blocks[b].rel = 1 => <<blocks[b].rel_ptr, blocks[b].rel_layout>> = u.dealloc
        /\ \A c \in 1..Len(blocks) :
              (blocks[c].layout = blocks[b].layout /\ blocks[c].rel = blocks[b].rel)
              => /\ blocks[c].inner_layout = blocks[b].inner_layout
                 /\ blocks[c].rel_layout = blocks[b].rel_layout

\* C16 witness: two blocks of the same layout have been allocated and freed,
\* one reported to the tracker at both ends under group 1, the other allocated
\* inside a tracker callback and never reported.
C16_Witness ==
    \E b, c \in 1..Len(blocks) :
        /\ blocks[b].layout = blocks[c].layout /\ blocks[b].layout.align = 16
        /\ Deallocated(b) /\ Deallocated(c)
        /\ blocks[b].agrp = Some(1)
        /\ EventsOf(b, "allocated") # {} /\ EventsOf(b, "deallocated") # {}
        /\ blocks[c].adepth = 1 /\ EventsOf(c, "allocated") = {}
        /\ EventsOf(c, "deallocated") = {}

\* ------------------------------------------------------------ deactivation
\* Thread t deactivates the Active state of guard or unmanaged token i in
\* this step.
Deactivates(t, i) ==
    /\ last'.i = i /\ toks[i].st.tag = "Active"
    /\ Exit(t) \/ Drop(t) \/ UnwindDrop(t) \/ UnsafeExit(t)

\* C17: in any order of exits, the deactivation of an Active state leaves the
\* thread's active group equal to the value the state saved at its activation
\* (the group, or none, active immediately before the enter) and yields, with
\* no fatal condition of its own, the identifier that was the thread's active
\* group immediately before the call.
C17_DeactivateRestoresAndYields ==
    [][\A t \in Threads, i \in 1..Len(toks) :
          Deactivates(t, i)
          => /\ toks[i].st.v = toks[i].before
             /\ current'[t] = toks[i].st.v
             /\ current[t].some
             /\ \A k \in 1..Len(last'.fatal) : last'.fatal[k] # "empty"
             /\ last'.op \in {"exit", "uexit"} => last'.token = current[t]]_vars

\* ------------------------------------------------- guards and unmanaged tokens
\* UnsafeAllocationGroupToken::exit on the state st of a thread whose active
\* group is cur: the thread-local and the panics it leaves.
UnsafeExitOutcome(st, cur) ==
    LET r == transition_to_idle(st, cur) IN
    [cur |-> r.cur, fatal |-> IF r.panic = "none" THEN <<>> ELSE <<r.panic>>]

\* C18: in every state reached by entering and exiting guards and unmanaged
\* tokens, AllocationGuard::exit on a live guard and
\* UnsafeAllocationGroupToken::exit on the same state value leave the same
\* active group on the thread and have the same fatal or non-fatal outcome
\* (both enters run the same activation on Idle(id)).
C18_GuardEquivalentToUnsafe ==
    \A t \in Threads, i \in 1..Len(toks) :
        (toks[i].kind = "guard" /\ toks[i].thr = t)
        => LET g == ExitGuard(toks[i], current[t])
               u == UnsafeExitOutcome(toks[i].st, current[t])
           IN g.cur = u.cur /\ g.fatal = u.fatal

\* ----------------------------------------------------------------- progress
\* C19: every acquire / acquire_with_tags call that has started returns, and
\* a call is retried only after another call installed a new snapshot: there
\* are never more retries than installed snapshots times the other threads.
C19_EveryCallReturns ==
    /\ \A t \in Threads : (pc[t] = "cas") ~> (pc[t] = "run")
    /\ [](retries <= (NumThreads - 1) * Len(registry.vec))
    /\ [][\A t \in Threads : RcuCasRetry(t) => registry.ptr # rcu[t].cur]_vars

\* C19 witness: all three calls have returned, two of them after a retry.
C19_Witness == AllReturned /\ Len(toks) = MaxAcquire /\ retries >= 2

\* C20: whatever the order of the exits, an enter or exit raises no fatal
\* condition other than active->active and idle->idle: no Active state is
\* ever deactivated while the thread's active group is empty.
C20_NeverEmptyAtDeactivation ==
    \A k \in 1..Len(last.fatal) : last.fatal[k] \in {"active->active", "idle->idle"}

\* ------------------------------------------------------- the active group
\* get_active_allocation_group on a thread whose CURRENT_ALLOCATION_TOKEN is
\* cur, with TOKEN_REGISTRY.load() returning reg: nothing when no group is
\* active, the expect's panic when the registry is still the empty option,
\* else the identifier with registry.get(id).copied().flatten().
get_active_allocation_group(cur, reg) ==
    IF ~cur.some
    THEN [some |-> FALSE, panic |-> "none", id |-> 0, tags |-> None]
    ELSE IF reg.ptr = 0
         THEN [some |-> FALSE, panic |-> "registry", id |-> 0, tags |-> None]
         ELSE [some |-> TRUE, panic |-> "none", id |-> cur.v, tags |-> Lookup(reg, cur.v)]

\* The one tag slice the groups entered below are acquired with, when they
\* are not acquired untagged.
ActiveTagInputs == { << <<Borrowed("k"), Owned("v")>> >> }

NextActive ==
    \E t \in Threads :
        \/ Acquire(t)
        \/ AcquireWithTagsIn(t, ActiveTagInputs)
        \/ RcuCasOk(t)
        \/ RcuCasRetry(t)
        \/ Enter(t)
        \/ Exit(t)
        \/ Drop(t)
        \/ UnwindDrop(t)
        \/ IntoUnsafe(t)
        \/ UnsafeEnter(t)
        \/ UnsafeExit(t)

\* Tokens acquired on an initially empty registry while the threads enter and
\* exit the groups already acquired.
SpecActive == Init /\ [][NextActive]_vars

\* C21: whenever a thread has an active group, its identifier is an index of
\* the registry as loaded at that moment (the registry is installed and longer
\* than the identifier), and get_active_allocation_group does not panic and
\* returns that identifier with the tags of the call that acquired it.
C21_ActiveIdInRegistry ==
    \A t \in Threads :
        current[t].some
        => LET m == get_active_allocation_group(current[t], registry) IN
              /\ registry.ptr # 0
              /\ current[t].v + 1 \in 1..Len(registry.vec)
              /\ m.some /\ m.panic = "none" /\ m.id = current[t].v
              /\ \E i \in 1..Len(toks) : toks[i].id = m.id /\ toks[i].tags = m.tags

\* C21 witness: a thread has a tagged group active that is not the last one
\* appended, while another thread is inside an acquire whose snapshot is
\* already out of date.
C21_Witness ==
    \E t, u \in Threads :
        /\ current[t].some /\ current[t].v + 1 < Len(registry.vec)
        /\ get_active_allocation_group(current[t], registry).tags = Some(<< <<"k", "v">> >>)
        /\ pc[u] = "cas" /\ rcu[u].cur # registry.ptr

====
